---- MODULE Spec2Model ----
(***************************************************************************)
(* ModelLoader::loadModel (source/ModelLoader.cpp) as a state machine.     *)
(*                                                                         *)
(* One call of loadModel is unrolled at its loop boundaries: the existence *)
(* check, the stream open and clear, one step per line of the outer        *)
(* while (std::getline), one step per face token of the inner              *)
(* while (ls >> chunk), one step per iteration of the fan loop, and the    *)
(* code after the loop.  The file is the environment: every line and every *)
(* face token is drawn when the code reads it, so all files within the     *)
(* bounds are explored.                                                    *)
(*                                                                         *)
(* Characters are one-character strings and a face token is a sequence of  *)
(* them: <<"1", "/", "1">> is the token 1/1.  The coordinates of a `v` or  *)
(* `vt` line are abstracted to a label: the k-th `v` line of the file      *)
(* carries position label k, the k-th `vt` line texcoord label k, and the  *)
(* label 0 is the texcoord (0,0).                                          *)
(***************************************************************************)
EXTENDS Integers, Sequences, FiniteSets, TLC

\* Bounds of the explored files.
MaxV == 4
MaxVT == 4
MaxFaces == 2
MaxTokens == 4
MaxSkip == 2

INT_MAX == 2147483647

VARIABLES
  pc,            \* position in loadModel
  fileStatus,    \* what the path names: "missing", "directory", "locked", "regular"
  streamOpened,  \* TRUE once std::ifstream file(fileName) was constructed
  result,        \* "none" while running, else the BOOLEAN returned
  m_vertex,      \* outMesh.m_vertex: sequence of [Pos, Tex]
  m_index,       \* outMesh.m_index
  m_numVertex,   \* outMesh.m_numVertex
  m_numIndex,    \* outMesh.m_numIndex
  tempPos,       \* positions read so far
  tempUV,        \* texcoords read so far
  tempNrm,       \* normals read so far
  uniqueVertex,  \* std::map<std::string,int>: function, DOMAIN = tokens seen
  faceIdx,       \* vertex indices of the face being read
  i,             \* loop variable of the fan loop
  chunk,         \* the token last extracted by ls >> chunk
  family,        \* the family of input files the file being read belongs to
  again,         \* TRUE in a call on a mesh that an earlier call has loaded into
  heldAtCall,    \* history: number of vertices the mesh held when the call began
  faces,         \* history: the token lists of the `f` lines read so far
  resolved,      \* history: per `f` line, the vertex indices its tokens got
  skipRead,      \* history: number of blank, comment and unknown-tag lines read
  vnRead,        \* history: number of `vn` lines read so far
  vRead,         \* history: number of `v` lines read so far
  linesRead,     \* history: number of lines read so far
  tokensRead,    \* history: number of face tokens read so far
  m_resources,   \* ResourceManager::m_resources: function key -> object
  objs,          \* the resources that were ever cached: [type, state, unloads]
  constructed,   \* history: number of resources GetOrLoad has constructed
  rmCall,        \* history: the last call made on the ResourceManager
  rmRet,         \* what that call returned: an object of objs, or nullptr
  nextID,        \* the static nextID of IResource::GenerateID
  tpc,           \* per thread: where it is in a GenerateID call
  reg,           \* per thread: the value of nextID it has read
  m_id,          \* per thread: IResource::m_id of the resources it constructed
  scpc,          \* position in SwapChain::init
  hWnd,          \* window.m_hWnd is not null
  hr,            \* the local hr of SwapChain::init
  driverTypeIndex, \* loop variable of the driver loop
  m_device,      \* device.m_device is not null
  m_deviceContext, \* deviceContext.m_deviceContext is not null
  m_qualityLevels, \* SwapChain::m_qualityLevels
  m_dxgiDevice,  \* SwapChain::m_dxgiDevice is not null
  m_dxgiAdapter, \* SwapChain::m_dxgiAdapter is not null
  m_dxgiFactory, \* SwapChain::m_dxgiFactory is not null
  m_swapChain,   \* SwapChain::m_swapChain is not null
  backBuffer,    \* GetBuffer has stored the back buffer
  scRet,         \* "none" while init runs, else the HRESULT it returned
  m_texture,     \* Texture::m_texture: a COM object of com, or nullptr
  m_textureFromImg, \* Texture::m_textureFromImg: likewise
  com,           \* reference counts of the COM objects created for the Texture
  texCall,       \* history: the last call made on the Texture, with
                 \* device (device.m_device was set) and created
                 \* (device.CreateTexture2D was called)
  texRet,        \* the HRESULT that call returned ("none" for destroy)
  m_renderTargetView, \* RenderTargetView::m_renderTargetView is not null
  m_depthStencilView, \* DepthStencilView::m_depthStencilView is not null
  inited,        \* the views whose init has been called
  wrapRet,       \* the HRESULT the last init of a view returned
  released,      \* history: per pointer member, the Release() calls made on it
  destroyed,     \* history: per wrapper, the destroy() calls made on it
  omCall,        \* the arguments of the last OMSetRenderTargets call
  omOutcome,     \* what that call did: "forwarded", "dropped" or "crashed"
  omBound        \* the arguments the native context last received

rmVars == <<m_resources, objs, constructed, rmCall, rmRet>>
idVars == <<nextID, tpc, reg, m_id>>
scVars == <<scpc, hWnd, hr, driverTypeIndex, m_device, m_deviceContext,
            m_qualityLevels, m_dxgiDevice, m_dxgiAdapter, m_dxgiFactory,
            m_swapChain, backBuffer, scRet>>
texVars == <<m_texture, m_textureFromImg, com, texCall, texRet>>
wrapVars == <<m_renderTargetView, m_depthStencilView, inited, wrapRet,
              released, destroyed>>
omVars == <<omCall, omOutcome, omBound>>
engineVars == <<rmVars, idVars, scVars, texVars, wrapVars, omVars>>
loaderVars == <<pc, fileStatus, streamOpened, result, m_vertex, m_index,
                m_numVertex, m_numIndex, tempPos, tempUV, tempNrm, uniqueVertex,
                faceIdx, i, chunk, family, again, heldAtCall, faces, resolved,
                skipRead, vnRead, vRead, linesRead, tokensRead>>
vars == <<loaderVars, engineVars>>
notRM == <<loaderVars, idVars, scVars, texVars, wrapVars, omVars>>
notID == <<loaderVars, rmVars, scVars, texVars, wrapVars, omVars>>
notSC == <<loaderVars, rmVars, idVars, texVars, wrapVars, omVars>>
notTex == <<loaderVars, rmVars, idVars, scVars, wrapVars, omVars>>
notWrap == <<loaderVars, rmVars, idVars, texVars, omVars>>
notOM == <<loaderVars, rmVars, idVars, scVars, texVars, wrapVars>>

meshVars == <<m_vertex, m_index, m_numVertex, m_numIndex>>
parseVars == <<tempPos, tempUV, tempNrm, uniqueVertex, faceIdx, i, chunk>>
histVars == <<faces, resolved, skipRead, vnRead, vRead, linesRead, tokensRead>>
envVars == <<fileStatus, family, again, heldAtCall>>

----------------------------------------------------------------------------
\* Characters and std::stoi.

Digits == {"0", "1", "2", "3", "4", "5", "6", "7", "8", "9"}
DigitSeq == <<"0", "1", "2", "3", "4", "5", "6", "7", "8", "9">>
DigitVal(c) == (CHOOSE k \in 1..10 : DigitSeq[k] = c) - 1

RECURSIVE DigitPrefixLen(_)
DigitPrefixLen(s) ==
  IF s = <<>> \/ Head(s) \notin Digits THEN 0 ELSE 1 + DigitPrefixLen(Tail(s))

\* Value of the first n digits of s, or -1 once it exceeds INT_MAX.
RECURSIVE DigitsValue(_, _)
DigitsValue(s, n) ==
  IF n = 0 THEN 0
  ELSE LET h == DigitsValue(s, n - 1)
           d == DigitVal(s[n])
       IN IF h = -1 \/ h > INT_MAX \div 10
               \/ (h = INT_MAX \div 10 /\ d > INT_MAX % 10)
            THEN -1
            ELSE h * 10 + d

\* std::stoi(s): optional sign, then the longest run of digits; characters
\* after the digits are ignored.  No digit: std::invalid_argument; a value
\* outside int: std::out_of_range.  Both are reported as ok = FALSE.
\* (INT_MIN itself is reported as out of range: the code's stoi(...) - 1
\* overflows on it, and on every build the index it yields is rejected like
\* the -1 of a failed conversion.)
Stoi(s) ==
  LET signed == s # <<>> /\ Head(s) \in {"+", "-"}
      body == IF signed THEN Tail(s) ELSE s
      n == DigitPrefixLen(body)
      mag == DigitsValue(body, n)
  IN IF n = 0 \/ mag = -1
       THEN [ok |-> FALSE, val |-> 0]
       ELSE [ok |-> TRUE,
             val |-> IF signed /\ Head(s) = "-" THEN 0 - mag ELSE mag]

\* if (!s.empty()) { try { idx = std::stoi(s) - 1; } catch (...) { idx = -1; } }
\* applied to idx initialised to -1.
IndexOf_NoMinusOne(s) ==
  IF s = <<>> THEN -1
  ELSE IF Stoi(s).ok THEN Stoi(s).val ELSE -1
IndexOf(s) ==
  IF s = <<>> THEN -1
  ELSE IF Stoi(s).ok THEN Stoi(s).val - 1 ELSE -1

\* std::getline(vs, out, '/') on the unread characters `rem` of the stream:
\* fails on an exhausted stream, else extracts up to the first '/' and
\* consumes that '/'.
RECURSIVE SlashPos(_)
SlashPos(s) ==
  IF s = <<>> THEN 0
  ELSE IF Head(s) = "/" THEN 1
  ELSE IF SlashPos(Tail(s)) = 0 THEN 0 ELSE 1 + SlashPos(Tail(s))

GetLineSlash(rem) ==
  IF rem = <<>> THEN [ok |-> FALSE, str |-> <<>>, rem |-> <<>>]
  ELSE LET p == SlashPos(rem)
       IN IF p = 0 THEN [ok |-> TRUE, str |-> rem, rem |-> <<>>]
          ELSE [ok |-> TRUE, str |-> SubSeq(rem, 1, p - 1),
                rem |-> SubSeq(rem, p + 1, Len(rem))]

\* The parse of a token not yet in the map: posIdx, texIdx, nrmIdx.
ParseChunk(c) ==
  LET g1 == GetLineSlash(c)
      posIdx == IndexOf(g1.str)
  IN IF g1.rem # <<>> /\ Head(g1.rem) = "/"
       THEN \* v//n
            LET g3 == GetLineSlash(Tail(g1.rem))
            IN [posIdx |-> posIdx, texIdx |-> -1, nrmIdx |-> IndexOf(g3.str)]
       ELSE LET g2 == GetLineSlash(g1.rem)
                g3 == GetLineSlash(g2.rem)
            IN [posIdx |-> posIdx, texIdx |-> IndexOf(g2.str),
                nrmIdx |-> IF g3.ok THEN IndexOf(g3.str) ELSE -1]

----------------------------------------------------------------------------
\* Families of input files.

T(a, b) == <<a, "/", b>>
Tok11 == T("1", "1")
Tok22 == T("2", "2")
Tok33 == T("3", "3")
Tok44 == T("4", "4")
Tok111 == <<"1", "/", "1", "/", "1">>
Tok99 == <<"9", "9", "/", "1">>
Tok2 == <<"2">>
Tok1nn2 == <<"1", "/", "/", "2">>
Tok1x == <<"1", "/", "x">>
TokNoPos == <<"/", "1">>
TokX == <<"x">>
Tok0 == <<"0">>
TokNeg1 == <<"-", "1">>

\* "quad":   tokens k/k; canonical layout, every `v` and `vt` line before the
\*           first `f` line; no other line.
\* "dedup":  tokens 1/1, 1/1/1, 2/2 and 99/1; `v`, `vt` and `f` lines in any
\*           order; no other line.
\* "sparse": token 1/1/1; `v`, `vt`, `f`, `vn`, blank, comment and
\*           unknown-tag lines in any order.
\* "forms":  tokens 2, 1//2 and 1/x; canonical layout; no other line.
\* "badpos": tokens /1, x, 0 and -1; canonical layout; no other line.
Families == {"quad", "dedup", "sparse", "forms", "badpos"}

Tokens(fam) ==
  CASE fam = "quad" -> {Tok11, Tok22, Tok33, Tok44}
    [] fam = "dedup" -> {Tok11, Tok111, Tok22, Tok99}
    [] fam = "sparse" -> {Tok111}
    [] fam = "forms" -> {Tok2, Tok1nn2, Tok1x}
    [] fam = "badpos" -> {TokNoPos, TokX, Tok0, TokNeg1}

\* The families a second load on the same mesh reads its file from.
ReloadFamilies == {"sparse"}

DeclsFirst(fam) == fam \in {"quad", "forms", "badpos"}

\* The files of "quad" write every v line with its vt line right after it.
Paired(fam) == fam = "quad"

\* The v and vt lines a file of the family holds at most: the tokens of
\* "quad" name four positions, those of the other families one or two.
VLines(fam) == IF fam = "quad" THEN MaxV ELSE MaxV - 2
VTLines(fam) ==
  CASE fam = "quad" -> MaxVT
    [] fam = "forms" -> MaxVT - 2
    [] OTHER -> MaxVT - 3
HasSkips(fam) == fam = "sparse"

\* Lines that emit nothing: "" is the empty line, "#" a comment, "g" a line
\* with an unrecognized tag.
SkipLines == {"", "#", "g"}

FileStatuses == {"missing", "directory", "locked", "regular"}

----------------------------------------------------------------------------
\* ResourceManager() = default: an empty cache, nothing constructed yet.
nullptr == 0
NoCall == [op |-> "none", key |-> "", type |-> "", load |-> "", init |-> ""]
RMConstructed ==
  /\ m_resources = <<>>
  /\ objs = <<>>
  /\ constructed = 0
  /\ rmCall = NoCall
  /\ rmRet = nullptr

\* static uint64_t nextID = 1, and threads that have constructed nothing.
Threads == {"t1", "t2"}
IDConstructed ==
  /\ nextID = 1
  /\ tpc = [t \in Threads |-> "idle"]
  /\ reg = [t \in Threads |-> 0]
  /\ m_id = [t \in Threads |-> <<>>]

\* SwapChain() = default, Device and DeviceContext freshly constructed, and
\* init about to be called.  m_qualityLevels has no initialiser: whatever it
\* holds is an indeterminate value.
MaxQuality == 2
SCFresh ==
  /\ scpc = "call"
  /\ hr = "S_OK"
  /\ driverTypeIndex = 0
  /\ m_device = FALSE
  /\ m_deviceContext = FALSE
  /\ m_dxgiDevice = FALSE
  /\ m_dxgiAdapter = FALSE
  /\ m_dxgiFactory = FALSE
  /\ m_swapChain = FALSE
  /\ backBuffer = FALSE
  /\ scRet = "none"
SCConstructed ==
  /\ hWnd = TRUE
  /\ m_qualityLevels = 0
  /\ SCFresh

\* Texture() = default: both pointers null.
TexConstructed ==
  /\ m_texture = nullptr
  /\ m_textureFromImg = nullptr
  /\ com = <<>>
  /\ texCall = [op |-> "none", zeroSize |-> FALSE, device |-> FALSE,
                created |-> FALSE]
  /\ texRet = "none"

\* The pointer members that a destroy() releases, by wrapper class.
Wrappers ==
  {"Device", "DeviceContext", "SwapChain", "RenderTargetView",
   "DepthStencilView"}
Ptrs(w) ==
  CASE w = "Device" -> {"m_device"}
    [] w = "DeviceContext" -> {"m_deviceContext"}
    [] w = "SwapChain" ->
         {"m_swapChain", "m_dxgiDevice", "m_dxgiAdapter", "m_dxgiFactory"}
    [] w = "RenderTargetView" -> {"m_renderTargetView"}
    [] w = "DepthStencilView" -> {"m_depthStencilView"}
PtrNames == UNION {Ptrs(w) : w \in Wrappers}

\* RenderTargetView() and DepthStencilView() = default: null pointers; no
\* Release() and no destroy() has been called on anything.
WrapConstructed ==
  /\ m_renderTargetView = FALSE
  /\ m_depthStencilView = FALSE
  /\ inited = {}
  /\ wrapRet = "none"
  /\ released = [p \in PtrNames |-> 0]
  /\ destroyed = [w \in Wrappers |-> 0]

\* No OMSetRenderTargets call has been made.
NoTargets == [NumViews |-> 0, rtvs |-> FALSE, dsv |-> FALSE]
OMConstructed ==
  /\ omCall = NoTargets
  /\ omOutcome = "none"
  /\ omBound = NoTargets

EngineConstructed ==
  /\ RMConstructed
  /\ IDConstructed
  /\ SCConstructed
  /\ TexConstructed
  /\ WrapConstructed
  /\ OMConstructed

\* A freshly constructed MeshComponent and a loadModel call about to begin.
LoaderFresh ==
  /\ pc = "call"
  /\ again = FALSE
  /\ heldAtCall = 0
  /\ streamOpened = FALSE
  /\ result = "none"
  /\ m_vertex = <<>>
  /\ m_index = <<>>
  /\ m_numVertex = 0
  /\ m_numIndex = 0
  /\ tempPos = <<>>
  /\ tempUV = <<>>
  /\ tempNrm = <<>>
  /\ uniqueVertex = <<>>
  /\ faceIdx = <<>>
  /\ i = 0
  /\ chunk = <<>>
  /\ faces = <<>>
  /\ resolved = <<>>
  /\ skipRead = 0
  /\ vnRead = 0
  /\ vRead = 0
  /\ linesRead = 0
  /\ tokensRead = 0

\* The state when loadModel is called on a freshly constructed MeshComponent.
Init ==
  /\ fileStatus \in FileStatuses
  /\ family \in Families
  /\ LoaderFresh
  /\ EngineConstructed

\* No file is being loaded while the other objects of the engine are used.
LoaderIdle ==
  /\ fileStatus = "missing"
  /\ family = "sparse"
  /\ LoaderFresh

\* GetFileAttributesA: a != INVALID_FILE_ATTRIBUTES && !(a & DIRECTORY)
fileExistsA_NoDirCheck(st) == st # "missing"
fileExistsA(st) == st # "missing" /\ st # "directory"

\* if (!fileExistsA(fileName.c_str())) return false;
CheckExists_ClearsFirst ==
  /\ UNCHANGED engineVars
  /\ pc = "call"
  /\ IF fileExistsA(fileStatus)
       THEN pc' = "open" /\ result' = result
       ELSE pc' = "done" /\ result' = FALSE
  /\ m_vertex' = <<>>
  /\ m_index' = <<>>
  /\ m_numVertex' = 0
  /\ m_numIndex' = 0
  /\ UNCHANGED <<envVars, streamOpened, parseVars, histVars>>
CheckExists ==
  /\ UNCHANGED engineVars
  /\ pc = "call"
  /\ IF fileExistsA(fileStatus)
       THEN pc' = "open" /\ result' = result
       ELSE pc' = "done" /\ result' = FALSE
  /\ UNCHANGED <<envVars, streamOpened, meshVars, parseVars, histVars>>

\* std::ifstream file(fileName); if (!file.is_open()) return false;
\* then the destination is cleared and the accumulators are constructed.
OpenFile_NoClear ==
  /\ UNCHANGED engineVars
  /\ pc = "open"
  /\ streamOpened' = TRUE
  /\ IF fileStatus = "regular"
       THEN /\ pc' = "line"
            /\ result' = result
            /\ m_numVertex' = 0
            /\ m_numIndex' = 0
            /\ tempPos' = <<>>
            /\ tempUV' = <<>>
            /\ tempNrm' = <<>>
            /\ uniqueVertex' = <<>>
            /\ UNCHANGED <<m_vertex, m_index>>
       ELSE /\ pc' = "done"
            /\ result' = FALSE
            /\ UNCHANGED <<meshVars, tempPos, tempUV, tempNrm, uniqueVertex>>
  /\ UNCHANGED <<envVars, faceIdx, i, chunk, histVars>>
OpenFile ==
  /\ UNCHANGED engineVars
  /\ pc = "open"
  /\ streamOpened' = TRUE
  /\ IF fileStatus = "regular"
       THEN /\ pc' = "line"
            /\ result' = result
            /\ m_vertex' = <<>>
            /\ m_index' = <<>>
            /\ m_numVertex' = 0
            /\ m_numIndex' = 0
            /\ tempPos' = <<>>
            /\ tempUV' = <<>>
            /\ tempNrm' = <<>>
            /\ uniqueVertex' = <<>>
       ELSE /\ pc' = "done"
            /\ result' = FALSE
            /\ UNCHANGED <<meshVars, tempPos, tempUV, tempNrm, uniqueVertex>>
  /\ UNCHANGED <<envVars, faceIdx, i, chunk, histVars>>

\* if (line.empty() || line[0] == '#') continue; and a tag that is none of
\* v, vt, vn, f.
LineSkip ==
  /\ UNCHANGED engineVars
  /\ pc = "line"
  /\ HasSkips(family)
  /\ skipRead + vnRead < MaxSkip
  /\ \E ln \in SkipLines :
       /\ skipRead' = skipRead + 1
       /\ linesRead' = linesRead + 1
  /\ UNCHANGED <<pc, envVars, streamOpened, result, meshVars, parseVars,
                 faces, resolved, vnRead, vRead, tokensRead>>

\* One line whose tag is "v".
LineV ==
  /\ UNCHANGED engineVars
  /\ pc = "line"
  /\ vRead < VLines(family)
  /\ DeclsFirst(family) => faces = <<>>
  /\ Paired(family) => Len(tempUV) = vRead
  /\ tempPos' = Append(tempPos, vRead + 1)
  /\ vRead' = vRead + 1
  /\ linesRead' = linesRead + 1
  /\ UNCHANGED <<pc, envVars, streamOpened, result, meshVars, tempUV, tempNrm,
                 uniqueVertex, faceIdx, i, chunk, faces, resolved, skipRead,
                 vnRead, tokensRead>>

\* One line whose tag is "vt".
LineVT ==
  /\ UNCHANGED engineVars
  /\ pc = "line"
  /\ Len(tempUV) < VTLines(family)
  /\ DeclsFirst(family) => faces = <<>>
  /\ Paired(family) => Len(tempUV) < vRead
  /\ tempUV' = Append(tempUV, Len(tempUV) + 1)
  /\ linesRead' = linesRead + 1
  /\ UNCHANGED <<pc, envVars, streamOpened, result, meshVars, tempPos, tempNrm,
                 uniqueVertex, faceIdx, i, chunk, faces, resolved, skipRead,
                 vnRead, vRead, tokensRead>>

\* One line whose tag is "vn".
LineVN_IntoPos ==
  /\ UNCHANGED engineVars
  /\ pc = "line"
  /\ HasSkips(family)
  /\ skipRead + vnRead < MaxSkip
  /\ tempPos' = Append(tempPos, vnRead + 1)
  /\ vnRead' = vnRead + 1
  /\ linesRead' = linesRead + 1
  /\ UNCHANGED <<pc, envVars, streamOpened, result, meshVars, tempNrm, tempUV,
                 uniqueVertex, faceIdx, i, chunk, faces, resolved, skipRead,
                 vRead, tokensRead>>
LineVN ==
  /\ UNCHANGED engineVars
  /\ pc = "line"
  /\ HasSkips(family)
  /\ skipRead + vnRead < MaxSkip
  /\ tempNrm' = Append(tempNrm, vnRead + 1)
  /\ vnRead' = vnRead + 1
  /\ linesRead' = linesRead + 1
  /\ UNCHANGED <<pc, envVars, streamOpened, result, meshVars, tempPos, tempUV,
                 uniqueVertex, faceIdx, i, chunk, faces, resolved, skipRead,
                 vRead, tokensRead>>

\* One line whose tag is "f": faceIdx is a fresh vector.
LineF ==
  /\ UNCHANGED engineVars
  /\ pc = "line"
  /\ Len(faces) < MaxFaces
  /\ Paired(family) => Len(tempUV) = vRead
  /\ pc' = "token"
  /\ faceIdx' = <<>>
  /\ faces' = Append(faces, <<>>)
  /\ resolved' = Append(resolved, <<>>)
  /\ linesRead' = linesRead + 1
  /\ UNCHANGED <<envVars, streamOpened, result, meshVars, tempPos, tempUV,
                 tempNrm, uniqueVertex, i, chunk, skipRead, vnRead, vRead,
                 tokensRead>>

AppendToLast(fs, c) == [fs EXCEPT ![Len(fs)] = Append(@, c)]

\* std::vector::operator[] outside the vector is undefined: "garbage" stands
\* for whatever it reads.
At(vec, k) == IF k + 1 \in DOMAIN vec THEN vec[k + 1] ELSE "garbage"

\* The vertex a new token emits: P = tempPos[posIdx]; T = {0,0} unless texIdx
\* is inside tempUV.
MakeVertex_NoTexCheck(p) ==
  [Pos |-> At(tempPos, p.posIdx),
   Tex |-> IF p.texIdx >= 0 THEN p.texIdx + 1 ELSE 0]
MakeVertex(p) ==
  [Pos |-> At(tempPos, p.posIdx),
   Tex |-> IF p.texIdx >= 0 /\ p.texIdx < Len(tempUV)
             THEN At(tempUV, p.texIdx) ELSE 0]

\* if (posIdx < 0 || posIdx >= (int)tempPos.size())
PosIdxBad_NoLowerBound(p) == p.posIdx >= Len(tempPos)
PosIdxBad_OffByOne(p) == p.posIdx < 0 \/ p.posIdx > Len(tempPos)
PosIdxBad(p) == p.posIdx < 0 \/ p.posIdx >= Len(tempPos)

\* finalIndex = (int)outMesh.m_vertex.size() - 1, size taken after push_back.
NewIndex_NoMinusOne(size) == size
NewIndex(size) == size - 1

\* The key uniqueVertex is searched and written with: the token string.
MapKey_ByValue(c) == <<ParseChunk(c).posIdx, ParseChunk(c).texIdx>>
MapKey(c) == c

\* uniqueVertex[chunk] = finalIndex on a key not in the map.
MapPut_Forget(m, k, v) == m
MapPut(m, k, v) == [x \in DOMAIN m \cup {k} |-> IF x = k THEN v ELSE m[x]]

\* One iteration of while (ls >> chunk).
ReadToken ==
  /\ UNCHANGED engineVars
  /\ pc = "token"
  /\ tokensRead < MaxTokens
  /\ \E c \in Tokens(family) :
       /\ chunk' = c
       /\ tokensRead' = tokensRead + 1
       /\ faces' = AppendToLast(faces, c)
       /\ IF MapKey(c) \in DOMAIN uniqueVertex
            THEN /\ faceIdx' = Append(faceIdx, uniqueVertex[MapKey(c)])
                 /\ resolved' = AppendToLast(resolved, uniqueVertex[MapKey(c)])
                 /\ UNCHANGED <<pc, result, m_vertex, uniqueVertex>>
            ELSE LET p == ParseChunk(c)
                     finalIndex == NewIndex(Len(m_vertex) + 1)
                 IN IF PosIdxBad(p)
                      THEN /\ pc' = "done"
                           /\ result' = FALSE
                           /\ UNCHANGED <<m_vertex, uniqueVertex, faceIdx,
                                          resolved>>
                      ELSE /\ m_vertex' = Append(m_vertex, MakeVertex(p))
                           /\ uniqueVertex' =
                                MapPut(uniqueVertex, MapKey(c), finalIndex)
                           /\ faceIdx' = Append(faceIdx, finalIndex)
                           /\ resolved' = AppendToLast(resolved, finalIndex)
                           /\ UNCHANGED <<pc, result>>
  /\ UNCHANGED <<envVars, streamOpened, m_index, m_numVertex, m_numIndex,
                 tempPos, tempUV, tempNrm, i, skipRead, vnRead, vRead,
                 linesRead>>

\* ls >> chunk fails: the face line is exhausted.  A face of fewer than 3
\* indices is ignored; else the fan loop starts at i = 1.
EndFace_Fatal ==
  /\ UNCHANGED engineVars
  /\ pc = "token"
  /\ IF Len(faceIdx) < 3
       THEN pc' = "done" /\ i' = i /\ result' = FALSE
       ELSE pc' = "fan" /\ i' = 1 /\ result' = result
  /\ UNCHANGED <<envVars, streamOpened, meshVars, tempPos, tempUV, tempNrm,
                 uniqueVertex, faceIdx, chunk, histVars>>
EndFace_ForgetShort ==
  /\ UNCHANGED engineVars
  /\ pc = "token"
  /\ IF Len(faceIdx) < 3
       THEN /\ pc' = "line"
            /\ i' = i
            /\ uniqueVertex' =
                 [k \in {x \in DOMAIN uniqueVertex :
                           uniqueVertex[x] \notin
                             {faceIdx[n] : n \in DOMAIN faceIdx}}
                    |-> uniqueVertex[k]]
       ELSE pc' = "fan" /\ i' = 1 /\ uniqueVertex' = uniqueVertex
  /\ UNCHANGED <<envVars, streamOpened, result, meshVars, tempPos, tempUV,
                 tempNrm, faceIdx, chunk, histVars>>
EndFace ==
  /\ UNCHANGED engineVars
  /\ pc = "token"
  /\ IF Len(faceIdx) < 3
       THEN pc' = "line" /\ i' = i
       ELSE pc' = "fan" /\ i' = 1
  /\ UNCHANGED <<envVars, streamOpened, result, meshVars, tempPos, tempUV,
                 tempNrm, uniqueVertex, faceIdx, chunk, histVars>>

\* The three indices one iteration of the fan loop pushes: faceIdx[0],
\* faceIdx[i], faceIdx[i + 1] (faceIdx is 0-based in the code, 1-based here).
FanTriangle_Strip(f, k) == <<f[k], f[k + 1], f[k + 2]>>
FanTriangle(f, k) == <<f[1], f[k + 1], f[k + 2]>>

\* The loop test i + 1 < faceIdx.size().
FanContinues_OffByOne(f, k) == k + 2 < Len(f)
FanContinues(f, k) == k + 1 < Len(f)

\* One iteration of for (size_t i = 1; i + 1 < faceIdx.size(); ++i), with
\* the loop test that follows it.
FanStep ==
  /\ UNCHANGED engineVars
  /\ pc = "fan"
  /\ m_index' = m_index \o FanTriangle(faceIdx, i)
  /\ i' = i + 1
  /\ pc' = IF FanContinues(faceIdx, i + 1) THEN "fan" ELSE "line"
  /\ UNCHANGED <<envVars, streamOpened, result, m_vertex, m_numVertex,
                 m_numIndex, tempPos, tempUV, tempNrm, uniqueVertex, faceIdx,
                 chunk, histVars>>

\* The return value after the last line:
\* if (m_numVertex == 0 || m_numIndex == 0) return false; return true;
LoadResult_VertexOnly(nv, ni) == ~(nv = 0)
LoadResult(nv, ni) == ~(nv = 0 \/ ni = 0)

\* std::getline fails: the counts are stored and the emptiness test decides.
EndOfFile ==
  /\ UNCHANGED engineVars
  /\ pc = "line"
  /\ m_numVertex' = Len(m_vertex)
  /\ m_numIndex' = Len(m_index)
  /\ result' = LoadResult(Len(m_vertex), Len(m_index))
  /\ pc' = "done"
  /\ UNCHANGED <<envVars, streamOpened, m_vertex, m_index, parseVars, histVars>>

\* loadModel is called once more, on the mesh the call that returned was
\* given.  The locals of the call that returned are gone; the file of the new
\* call is of one of the families ReloadFamilies.
CallAgain ==
  /\ UNCHANGED engineVars
  /\ pc = "done"
  /\ ~again
  /\ again' = TRUE
  /\ heldAtCall' = Len(m_vertex)
  /\ pc' = "call"
  /\ fileStatus' \in FileStatuses
  /\ family' \in ReloadFamilies
  /\ streamOpened' = FALSE
  /\ result' = "none"
  /\ tempPos' = <<>>
  /\ tempUV' = <<>>
  /\ tempNrm' = <<>>
  /\ uniqueVertex' = <<>>
  /\ faceIdx' = <<>>
  /\ i' = 0
  /\ chunk' = <<>>
  /\ faces' = <<>>
  /\ resolved' = <<>>
  /\ skipRead' = 0
  /\ vnRead' = 0
  /\ vRead' = 0
  /\ linesRead' = 0
  /\ tokensRead' = 0
  /\ UNCHANGED meshVars

Next ==
  \/ CallAgain
  \/ CheckExists
  \/ OpenFile
  \/ LineSkip
  \/ LineV
  \/ LineVT
  \/ LineVN
  \/ LineF
  \/ ReadToken
  \/ EndFace
  \/ FanStep
  \/ EndOfFile

Spec == Init /\ [][Next]_vars

----------------------------------------------------------------------------
\* ResourceManager (ResourceManager.h) over resources derived from IResource.

MaxConstructed == 2
Keys == {"k1", "k2"}
ResourceTypes == {"Model3D", "Other"}
ResourceState == {"Unloaded", "Loading", "Loaded", "Failed"}

\* std::dynamic_pointer_cast<T>(p)
Cast(p, Ty) == IF p # nullptr /\ objs[p].type = Ty THEN p ELSE nullptr

\* it != m_resources.end() && existing && existing->GetState() == Loaded
CacheHit_StateInverted(key, Ty) ==
  /\ key \in DOMAIN m_resources
  /\ Cast(m_resources[key], Ty) # nullptr
  /\ objs[m_resources[key]].state # "Loaded"
CacheHit(key, Ty) ==
  /\ key \in DOMAIN m_resources
  /\ Cast(m_resources[key], Ty) # nullptr
  /\ objs[m_resources[key]].state = "Loaded"

\* The new resource reaches m_resources[key] = resource only past both
\* `if (!resource->load(filename)) return nullptr` and `if (!resource->init())`.
Stored_BeforeInit(loadOk, initOk) == loadOk
Stored(loadOk, initOk) == loadOk /\ initOk

Outcome(b) == IF b THEN "true" ELSE "false"

\* GetOrLoad<T>(key, filename, args...).  What load() and init() of T return,
\* and the state they leave the resource in, are the subclass's.
GetOrLoad ==
  /\ UNCHANGED notRM
  /\ \E key \in Keys, Ty \in ResourceTypes :
       IF CacheHit(key, Ty)
         THEN /\ rmRet' = m_resources[key]
              /\ rmCall' = [op |-> "GetOrLoad", key |-> key, type |-> Ty,
                            load |-> "skipped", init |-> "skipped"]
              /\ UNCHANGED <<m_resources, objs, constructed>>
         ELSE /\ constructed < MaxConstructed
              /\ constructed' = constructed + 1
              /\ \E loadOk \in BOOLEAN, initOk \in BOOLEAN :
                   /\ loadOk \/ initOk
                   /\ rmCall' = [op |-> "GetOrLoad", key |-> key, type |-> Ty,
                                 load |-> Outcome(loadOk),
                                 init |-> IF loadOk THEN Outcome(initOk)
                                                   ELSE "skipped"]
                   /\ IF Stored(loadOk, initOk)
                        THEN \E st \in ResourceState :
                               /\ objs' = Append(objs, [type |-> Ty, state |-> st,
                                                        unloads |-> 0])
                               /\ m_resources' =
                                    [k \in DOMAIN m_resources \cup {key} |->
                                      IF k = key THEN Len(objs) + 1
                                                 ELSE m_resources[k]]
                               /\ rmRet' = Len(objs) + 1
                        ELSE /\ rmRet' = nullptr
                             /\ UNCHANGED <<m_resources, objs>>

\* Get<T>(key)
Get ==
  /\ UNCHANGED notRM
  /\ \E key \in Keys, Ty \in ResourceTypes :
       /\ rmRet' = IF key \in DOMAIN m_resources
                     THEN Cast(m_resources[key], Ty) ELSE nullptr
       /\ rmCall' = [op |-> "Get", key |-> key, type |-> Ty,
                     load |-> "", init |-> ""]
  /\ UNCHANGED <<m_resources, objs, constructed>>

\* res->unload() on each resource of S.  The state unload() leaves behind is
\* not kept: the resource is erased from the cache in the same call.
CallUnload_Skip(S) == objs
CallUnload(S) ==
  [p \in DOMAIN objs |->
    IF p \in S THEN [objs[p] EXCEPT !.unloads = @ + 1] ELSE objs[p]]

\* Unload(key)
Unload ==
  /\ UNCHANGED notRM
  /\ \E key \in Keys :
       /\ rmCall' = [op |-> "Unload", key |-> key, type |-> "",
                     load |-> "", init |-> ""]
       /\ IF key \in DOMAIN m_resources
            THEN /\ objs' = CallUnload({m_resources[key]})
                 /\ m_resources' =
                      [k \in DOMAIN m_resources \ {key} |-> m_resources[k]]
            ELSE UNCHANGED <<m_resources, objs>>
  /\ UNCHANGED <<constructed, rmRet>>

\* UnloadAll()
UnloadAll ==
  /\ UNCHANGED notRM
  /\ rmCall' = [op |-> "UnloadAll", key |-> "", type |-> "",
                load |-> "", init |-> ""]
  /\ objs' = CallUnload({m_resources[k] : k \in DOMAIN m_resources})
  /\ m_resources' = <<>>
  /\ UNCHANGED <<constructed, rmRet>>

\* IResource::SetState(s), public, on a resource reached through the cache.
SetState ==
  /\ UNCHANGED notRM
  /\ \E key \in DOMAIN m_resources, s \in ResourceState :
       /\ objs' = [objs EXCEPT ![m_resources[key]].state = s]
       /\ rmCall' = [op |-> "SetState", key |-> key, type |-> "",
                     load |-> "", init |-> ""]
  /\ UNCHANGED <<m_resources, constructed, rmRet>>

InitRM == LoaderIdle /\ EngineConstructed

NextRM ==
  \/ GetOrLoad
  \/ Get
  \/ Unload
  \/ UnloadAll
  \/ SetState

SpecRM == InitRM /\ [][NextRM]_vars

----------------------------------------------------------------------------
\* Vocabulary of the properties, read off the file as it was read (faces,
\* vRead, linesRead) rather than off the loader's own bookkeeping.

Range(sq) == {sq[k] : k \in DOMAIN sq}
TokensOf(fs) == UNION {Range(fs[k]) : k \in DOMAIN fs}

\* The places of the face lines whose token got a vertex index.
Places == UNION {{<<a, b>> : b \in DOMAIN resolved[a]} : a \in DOMAIN resolved}
TokenAt(pl) == faces[pl[1]][pl[2]]
IndexAt(pl) == resolved[pl[1]][pl[2]]

\* A token of the form v/t: digits, one slash, digits.
IsVT(c) ==
  /\ SlashPos(c) > 1
  /\ SlashPos(c) < Len(c)
  /\ \A k \in DOMAIN c : k # SlashPos(c) => c[k] \in Digits

\* Number of triangles of the fan triangulation of the faces read.
RECURSIVE TriCount(_)
TriCount(fs) ==
  IF fs = <<>> THEN 0
  ELSE (IF Len(Head(fs)) >= 3 THEN Len(Head(fs)) - 2 ELSE 0) + TriCount(Tail(fs))

\* The triangles (i0, ij, i(j+1)), j = 1..k-2, of a face resolved to idx,
\* as one flat list; empty for a face of fewer than 3 indices.
Fan(idx) ==
  IF Len(idx) < 3 THEN <<>>
  ELSE [n \in 1..(3 * (Len(idx) - 2)) |->
          LET j == ((n - 1) \div 3) + 1
              r == (n - 1) % 3
          IN IF r = 0 THEN idx[1] ELSE idx[j + r]]

RECURSIVE FanAll(_)
FanAll(rs) == IF rs = <<>> THEN <<>> ELSE Fan(Head(rs)) \o FanAll(Tail(rs))

\* The step that reads one more face token.
TokenStep == pc = "token" /\ tokensRead' = tokensRead + 1
\* The step that ends a face line.
FaceEndStep == pc = "token" /\ tokensRead' = tokensRead /\ pc' # "token"
\* The step taken when std::getline finds no further line.
EofStep == pc = "line" /\ pc' = "done"
\* Parsing has begun: the stream is open on a regular file.
ParsingBegun == streamOpened /\ fileStatus = "regular"

----------------------------------------------------------------------------
\* C1: when the token just read was not seen before in the file and its
\* 0-based position index is outside 0..(number of v lines read so far)-1,
\* that very step returns false; after a return the call reads no further
\* token and no further line.
C1_MalformedFaceReturnsAtOnce ==
  [][ /\ (TokenStep /\ chunk' \notin TokensOf(faces)
            /\ ParseChunk(chunk').posIdx \notin 0..(vRead - 1))
         => (pc' = "done" /\ result' = FALSE)
      /\ (pc = "done" /\ again' = again)
           => (linesRead' = linesRead /\ tokensRead' = tokensRead)
    ]_vars

\* C1 witness: `v`, then a face whose second token 2/2 names a position that
\* was not declared; the load has returned false with that token last read.
C1_Witness ==
  /\ pc = "done"
  /\ result = FALSE
  /\ chunk = Tok22
  /\ vRead = 1
  /\ faces = << <<Tok11, Tok22>> >>
  /\ Len(m_vertex) = 1

\* C2: after a load that failed once parsing had begun, the mesh's vertex
\* list and index list hold nothing of what was parsed before the failure.
C2_NoPartialMesh ==
  (pc = "done" /\ result = FALSE /\ ParsingBegun)
    => (m_vertex = <<>> /\ m_index = <<>>)

\* C3: all occurrences of one token string, in one face or across faces, get
\* the same vertex index, and the vertex list holds one vertex per distinct
\* token resolved (only a first occurrence appends).
C3_SameTokenSameIndex ==
  /\ \A p1, p2 \in Places :
       TokenAt(p1) = TokenAt(p2) => IndexAt(p1) = IndexAt(p2)
  /\ ParsingBegun /\ pc # "open"
       => Len(m_vertex) = Cardinality({TokenAt(pl) : pl \in Places})

\* C3 witness: 1/1 occurs twice in the first face and again in the second.
C3_Witness ==
  /\ pc = "done"
  /\ result = TRUE
  /\ faces = << <<Tok11, Tok11, Tok22>>, <<Tok11>> >>
  /\ resolved = << <<0, 0, 1>>, <<0>> >>

\* C4: two tokens that differ as strings get different vertex indices, also
\* when they resolve to the same position and texcoord.
C4_DistinctTokensDistinctIndices ==
  \A p1, p2 \in Places :
    TokenAt(p1) # TokenAt(p2) => IndexAt(p1) # IndexAt(p2)

\* C4 witness: 1/1 and 1/1/1 were both resolved, to two indices whose
\* vertices carry the same data.
C4_Witness ==
  \E p1, p2 \in Places :
    /\ TokenAt(p1) = Tok11
    /\ TokenAt(p2) = Tok111
    /\ IndexAt(p1) # IndexAt(p2)
    /\ m_vertex[IndexAt(p1) + 1] = m_vertex[IndexAt(p2) + 1]

\* C5: a successful load of a file whose face tokens are all of the form v/t
\* reports as vertex count the number of distinct token strings of the file
\* and as index count 3 times the sum of (k - 2) over the faces of k >= 3
\* tokens.
C5_Counts ==
  (pc = "done" /\ result = TRUE /\ \A c \in TokensOf(faces) : IsVT(c))
    => /\ m_numVertex = Cardinality(TokensOf(faces))
       /\ m_numIndex = 3 * TriCount(faces)

\* C5 witness: a successful load of a quad whose tokens are not all distinct.
C5_Witness ==
  /\ pc = "done"
  /\ result = TRUE
  /\ Len(faces) = 1
  /\ Len(faces[1]) = 4
  /\ Cardinality(TokensOf(faces)) = 3
  /\ \A c \in TokensOf(faces) : IsVT(c)
  /\ m_numVertex = 3
  /\ m_numIndex = 6

\* The file of the single quad f 1/1 2/2 3/3 4/4 over 4 positions and 4
\* texcoords, loaded to its end.
QuadLoaded ==
  /\ pc = "done"
  /\ ParsingBegun
  /\ faces = << <<Tok11, Tok22, Tok33, Tok44>> >>
  /\ vRead = 4
  /\ Len(tempUV) = 4

\* C6: between face lines and at a successful return the index list is the
\* concatenation, face by face, of the fan triangles (i0, ij, i(j+1)),
\* j = 1..k-2, of the indices the face's tokens resolved to; the single-quad
\* file yields 4 vertices and the index list 0,1,2,0,2,3.
C6_FanTriangulation ==
  /\ (pc = "line" \/ (pc = "done" /\ result = TRUE))
       => m_index = FanAll(resolved)
  /\ QuadLoaded
       => /\ result = TRUE
          /\ Len(m_vertex) = 4
          /\ m_numVertex = 4
          /\ m_index = <<0, 1, 2, 0, 2, 3>>
          /\ m_numIndex = 6

\* C6 witness: the single-quad file was loaded.
C6_Witness == QuadLoaded /\ result = TRUE /\ linesRead = 9

C8_EmptyMesh ==
  [][ EofStep
        => /\ result' = (m_vertex' # <<>> /\ m_index' # <<>>)
           /\ linesRead = skipRead => result' = FALSE
    ]_vars

\* C8 witness: a file of two comment or blank lines returned false.
C8_Witness ==
  /\ pc = "done"
  /\ ParsingBegun
  /\ linesRead = 2
  /\ skipRead = 2
  /\ tempNrm = <<>>
  /\ result = FALSE

\* C9: the end of a face line of fewer than 3 tokens appends no index and no
\* vertex, returns nothing and goes on to the next line.
C9_ShortFaceSkipped ==
  [][ (FaceEndStep /\ Len(faces[Len(faces)]) < 3)
        => /\ pc' = "line"
           /\ result' = "none"
           /\ m_index' = m_index
           /\ m_vertex' = m_vertex
    ]_vars

\* C9 witness: a one-token face, then a triangle on a later line that was
\* resolved and triangulated; the load succeeded.
C9_Witness ==
  /\ pc = "done"
  /\ result = TRUE
  /\ Len(faces) = 2
  /\ Len(faces[1]) = 1
  /\ Len(faces[2]) = 3
  /\ m_index = resolved[2]

\* C10: for a path that is missing or a directory the load never opens a
\* stream, never starts parsing, and returns false.
C10_NotFoundBeforeOpen ==
  fileStatus \in {"missing", "directory"}
    => /\ ~streamOpened
       /\ pc \in {"call", "done"}
       /\ pc = "done" => result = FALSE

\* C10 witness: the call on a directory has returned false, no stream opened.
C10_Witness ==
  /\ pc = "done"
  /\ fileStatus = "directory"
  /\ result = FALSE
  /\ ~streamOpened

----------------------------------------------------------------------------
\* What each token of the files says, read by eye: the 1-based position v
\* (0 also when the position field is empty or not a number), the 1-based
\* texcoord t (0: the token has no t field, -1: its t field is not a number)
\* and whether it is of one of the forms v, v/t, v/t/n, v//n.
Written(c) ==
  CASE c = Tok11 -> [v |-> 1, t |-> 1, form |-> TRUE]
    [] c = Tok22 -> [v |-> 2, t |-> 2, form |-> TRUE]
    [] c = Tok33 -> [v |-> 3, t |-> 3, form |-> TRUE]
    [] c = Tok44 -> [v |-> 4, t |-> 4, form |-> TRUE]
    [] c = Tok111 -> [v |-> 1, t |-> 1, form |-> TRUE]
    [] c = Tok99 -> [v |-> 99, t |-> 1, form |-> TRUE]
    [] c = Tok2 -> [v |-> 2, t |-> 0, form |-> TRUE]
    [] c = Tok1nn2 -> [v |-> 1, t |-> 0, form |-> TRUE]
    [] c = Tok1x -> [v |-> 1, t |-> -1, form |-> FALSE]
    [] c = TokNoPos -> [v |-> 0, t |-> 1, form |-> FALSE]
    [] c = TokX -> [v |-> 0, t |-> 0, form |-> FALSE]
    [] c = Tok0 -> [v |-> 0, t |-> 0, form |-> FALSE]
    [] c = TokNeg1 -> [v |-> -1, t |-> 0, form |-> FALSE]

\* The step that reads a token not seen before in the file whose position is
\* one of the `v` lines read so far.
NewTokenInRangeStep ==
  /\ TokenStep
  /\ chunk' \notin TokensOf(faces)
  /\ Written(chunk').v \in 1..vRead

\* The step appends exactly the vertex vx and goes on with the face.
Emits(vx) ==
  /\ m_vertex' = Append(m_vertex, vx)
  /\ pc' = "token"
  /\ result' = "none"

\* C11: a new token with a position in range whose texcoord index is absent,
\* not a number, or outside the texcoords read so far emits one vertex with
\* texcoord (0,0) and does not fail the load.
C11_TexDefaultsToZero ==
  [][ (NewTokenInRangeStep /\ Written(chunk').t \notin 1..Len(tempUV))
        => \E pos \in 1..vRead : Emits([Pos |-> pos, Tex |-> 0])
    ]_vars

\* C11 witness: with two texcoords read, a face of the tokens 2, 1//2 and
\* 1/x was loaded; its three vertices carry texcoord (0,0).
C11_Witness ==
  /\ pc = "done"
  /\ result = TRUE
  /\ faces = << <<Tok2, Tok1nn2, Tok1x>> >>
  /\ Len(tempUV) >= 2
  /\ Len(m_vertex) = 3
  /\ \A k \in DOMAIN m_vertex : m_vertex[k].Tex = 0

\* C12: a new token of the form v, v/t, v/t/n or v//n with v and t in range
\* emits the vertex made of the v-th position and the t-th texcoord read so
\* far ((0,0) when the form has no t), whatever its n field and whatever
\* normals were read.
C12_VertexData ==
  [][ (/\ NewTokenInRangeStep
       /\ Written(chunk').form
       /\ Written(chunk').t \in 0..Len(tempUV))
        => Emits([Pos |-> Written(chunk').v, Tex |-> Written(chunk').t])
    ]_vars

\* C12 witness: 1/1/1 resolved after a `vn` line was read (n in range), to
\* the vertex of position 1 and texcoord 1.
C12_Witness ==
  /\ pc = "done"
  /\ result = TRUE
  /\ vnRead >= 1
  /\ faces = << <<Tok111, Tok111, Tok111>> >>
  /\ m_vertex = << [Pos |-> 1, Tex |-> 1] >>

\* C13: a blank, comment or unknown-tag line changes none of the position
\* list, texcoord list, normal list, token map, vertex list and index list
\* and returns nothing; a `vn` line changes the normal list and none of the
\* others.
C13_SkippedLinesFrame ==
  [][ /\ skipRead' # skipRead /\ pc = "line"
        => /\ UNCHANGED <<tempPos, tempUV, tempNrm, uniqueVertex, meshVars>>
           /\ pc' = "line"
           /\ result' = "none"
      /\ vnRead' # vnRead /\ pc = "line"
        => /\ UNCHANGED <<tempPos, tempUV, uniqueVertex, meshVars>>
           /\ Len(tempNrm') = Len(tempNrm) + 1
           /\ pc' = "line"
           /\ result' = "none"
    ]_vars

\* C13 witness: a load that read a skipped line and a `vn` line succeeded.
C13_Witness ==
  /\ pc = "done"
  /\ result = TRUE
  /\ skipRead = 1
  /\ vnRead = 1
  /\ Len(m_index) = 3

\* C14: whatever the mesh held when loadModel was called, parsing of an
\* openable file starts from the state it starts from on a fresh mesh: empty
\* vertex and index lists, zero counts, empty accumulators and map.  (Every
\* later step is a function of that state and of the file.)
C14_StartsFromFreshState ==
  (pc = "line" /\ linesRead = 0)
    => /\ m_vertex = <<>>
       /\ m_index = <<>>
       /\ m_numVertex = 0
       /\ m_numIndex = 0
       /\ tempPos = <<>>
       /\ tempUV = <<>>
       /\ tempNrm = <<>>
       /\ uniqueVertex = <<>>

\* C14 witness: a second load into a mesh that held 4 vertices has returned
\* true with the one vertex and three indices of its own file.
C14_Witness ==
  /\ again
  /\ heldAtCall = 4
  /\ pc = "done"
  /\ result = TRUE
  /\ m_vertex = << [Pos |-> 1, Tex |-> 0] >>
  /\ m_index = <<0, 0, 0>>
  /\ m_numVertex = 1
  /\ m_numIndex = 3

----------------------------------------------------------------------------
\* Claims about the ResourceManager.

\* The step is a call GetOrLoad<Ty>(key, ...).
GetOrLoadStep(key, Ty) ==
  /\ rmCall'.op = "GetOrLoad"
  /\ rmCall'.key = key
  /\ rmCall'.type = Ty

\* The cache holds a resource of type Ty under key.
Holds(key, Ty) ==
  /\ key \in DOMAIN m_resources
  /\ objs[m_resources[key]].type = Ty

\* The call returned the cached instance and did nothing else.
ReturnsCached(key) ==
  /\ rmRet' = m_resources[key]
  /\ rmCall'.load = "skipped"
  /\ rmCall'.init = "skipped"
  /\ UNCHANGED <<m_resources, objs, constructed>>

C16_FailureLeavesCache ==
  [][ (/\ rmCall'.op = "GetOrLoad"
       /\ rmCall'.load = "false" \/ rmCall'.init = "false")
        => /\ rmRet' = nullptr
           /\ UNCHANGED <<m_resources, objs>>
    ]_vars

\* C16 witness: init() returned false for a resource meant to replace a
\* cached one that was not Loaded; the call returned nullptr and the cache
\* still holds the old resource.
C16_Witness ==
  /\ rmCall.op = "GetOrLoad"
  /\ rmCall.load = "true"
  /\ rmCall.init = "false"
  /\ rmRet = nullptr
  /\ constructed = 2
  /\ m_resources = [k \in {rmCall.key} |-> 1]
  /\ objs[1].type = rmCall.type
  /\ objs[1].state = "Failed"

\* The objects the cache holds.
CachedObjs == {m_resources[k] : k \in DOMAIN m_resources}

\* unload() was called once more on the objects of S and on no other.
UnloadedOnce(S) ==
  /\ DOMAIN objs' = DOMAIN objs
  /\ \A p \in DOMAIN objs :
       objs'[p].unloads = objs[p].unloads + (IF p \in S THEN 1 ELSE 0)

\* What Get<Ty>(key) returns in the state after the step.
GetAfter(key, Ty) ==
  IF key \in DOMAIN m_resources' /\ objs'[m_resources'[key]].type = Ty
    THEN m_resources'[key] ELSE nullptr

\* C17: Unload(key) of a cached key calls unload() once on the resource under
\* key, on no other, and Get(key) then returns nullptr; Unload of an absent
\* key changes nothing; UnloadAll calls unload() once on each cached resource
\* and empties the cache.
C17_UnloadOnce ==
  [][ /\ \A key \in Keys :
           (rmCall'.op = "Unload" /\ rmCall'.key = key)
             => IF key \in DOMAIN m_resources
                  THEN /\ UnloadedOnce({m_resources[key]})
                       /\ \A Ty \in ResourceTypes : GetAfter(key, Ty) = nullptr
                       /\ \A k \in DOMAIN m_resources \ {key} :
                            /\ k \in DOMAIN m_resources'
                            /\ m_resources'[k] = m_resources[k]
                  ELSE UNCHANGED <<m_resources, objs>>
      /\ rmCall'.op = "UnloadAll"
           => /\ UnloadedOnce(CachedObjs)
              /\ DOMAIN m_resources' = {}
    ]_vars

\* C17 witness: two resources were cached, UnloadAll ran, the cache is empty
\* and each of the two has had exactly one unload() call.
C17_Witness ==
  /\ rmCall.op = "UnloadAll"
  /\ DOMAIN m_resources = {}
  /\ Len(objs) = 2
  /\ objs[1].unloads = 1
  /\ objs[2].unloads = 1

----------------------------------------------------------------------------
\* IResource::GenerateID (IResource.h) called from constructors running on
\* several threads.  `return nextID++` on a plain static is a read of nextID
\* followed by a write of the value read plus one; nothing orders the reads
\* and writes of different threads.

MaxCtor == 3

\* The read half of nextID++ in thread t, which is constructing a resource.
ReadNextID(t) ==
  /\ tpc[t] = "idle"
  /\ Len(m_id[t]) < MaxCtor
  /\ reg' = [reg EXCEPT ![t] = nextID]
  /\ tpc' = [tpc EXCEPT ![t] = "read"]
  /\ UNCHANGED <<nextID, m_id, notID>>

\* The write half, and m_id(GenerateID()) receiving the value read.
WriteNextID(t) ==
  /\ tpc[t] = "read"
  /\ nextID' = reg[t] + 1
  /\ m_id' = [m_id EXCEPT ![t] = Append(@, reg[t])]
  /\ tpc' = [tpc EXCEPT ![t] = "idle"]
  /\ UNCHANGED <<reg, notID>>

ReadStep == \E t \in Threads : ReadNextID(t)
WriteStep == \E t \in Threads : WriteNextID(t)

InitID == LoaderIdle /\ EngineConstructed

NextID ==
  \/ ReadStep
  \/ WriteStep

SpecID == InitID /\ [][NextID]_vars

\* The IDs handed out so far, each with the thread and the construction.
Handed == {<<t, k>> : t \in Threads, k \in 1..MaxCtor}

\* C18: no two resources, constructed on the same or on different threads,
\* have received the same ID.
C18_IDsDistinct ==
  \A a \in Handed, b \in Handed :
    (/\ a # b
     /\ a[2] \in DOMAIN m_id[a[1]]
     /\ b[2] \in DOMAIN m_id[b[1]])
      => m_id[a[1]][a[2]] # m_id[b[1]][b[2]]

----------------------------------------------------------------------------
\* SwapChain::init and SwapChain::destroy (SwapChain.cpp).  Each call into
\* Direct3D or DXGI is one step whose HRESULT is the environment's.

ApiResults == {"S_OK", "E_FAIL", "E_INVALIDARG"}
FAILED(h) == h \in {"E_FAIL", "E_INVALIDARG", "E_POINTER", "E_NOTIMPL"}
SUCCEEDED(h) == ~FAILED(h)
NumDriverTypes == 3

\* return h;
SCReturn(h) ==
  /\ scRet' = h
  /\ scpc' = "done"

\* if (!window.m_hWnd) return E_POINTER;  HRESULT hr = S_OK;
SCCheckWindow ==
  /\ scpc = "call"
  /\ IF ~hWnd
       THEN /\ SCReturn("E_POINTER")
            /\ UNCHANGED <<hr, driverTypeIndex>>
       ELSE /\ hr' = "S_OK"
            /\ driverTypeIndex' = 0
            /\ scpc' = "driver"
            /\ UNCHANGED scRet
  /\ UNCHANGED <<hWnd, m_device, m_deviceContext, m_qualityLevels,
                 m_dxgiDevice, m_dxgiAdapter, m_dxgiFactory, m_swapChain,
                 backBuffer, notSC>>

\* One iteration of the driver loop: D3D11CreateDevice, break on success.
SCCreateDevice ==
  /\ scpc = "driver"
  /\ driverTypeIndex < NumDriverTypes
  /\ \E h \in ApiResults :
       /\ hr' = h
       /\ IF SUCCEEDED(h)
            THEN /\ m_device' = TRUE
                 /\ m_deviceContext' = TRUE
                 /\ scpc' = "created"
                 /\ UNCHANGED driverTypeIndex
            ELSE /\ driverTypeIndex' = driverTypeIndex + 1
                 /\ scpc' = IF driverTypeIndex + 1 < NumDriverTypes
                              THEN "driver" ELSE "created"
                 /\ UNCHANGED <<m_device, m_deviceContext>>
  /\ UNCHANGED <<hWnd, m_qualityLevels, m_dxgiDevice, m_dxgiAdapter,
                 m_dxgiFactory, m_swapChain, backBuffer, scRet, notSC>>

\* if (FAILED(hr)) return hr;   after the loop
SCDeviceCheck ==
  /\ scpc = "created"
  /\ IF FAILED(hr)
       THEN SCReturn(hr)
       ELSE /\ scpc' = "msaa"
            /\ UNCHANGED scRet
  /\ UNCHANGED <<hWnd, hr, driverTypeIndex, m_device, m_deviceContext,
                 m_qualityLevels, m_dxgiDevice, m_dxgiAdapter, m_dxgiFactory,
                 m_swapChain, backBuffer, notSC>>

\* hr = CheckMultisampleQualityLevels(..., &m_qualityLevels);
\* if (FAILED(hr) || m_qualityLevels == 0) return hr;
SCCheckMsaa ==
  /\ scpc = "msaa"
  /\ \E h \in ApiResults, q \in 0..MaxQuality :
       /\ hr' = h
       /\ m_qualityLevels' = q
       /\ IF FAILED(h) \/ q = 0
            THEN SCReturn(h)
            ELSE /\ scpc' = "query"
                 /\ UNCHANGED scRet
  /\ UNCHANGED <<hWnd, driverTypeIndex, m_device, m_deviceContext,
                 m_dxgiDevice, m_dxgiAdapter, m_dxgiFactory, m_swapChain,
                 backBuffer, notSC>>

\* hr = m_device->QueryInterface(IDXGIDevice, &m_dxgiDevice);
SCQueryInterface ==
  /\ scpc = "query"
  /\ \E h \in ApiResults :
       /\ hr' = h
       /\ IF FAILED(h)
            THEN /\ SCReturn(h)
                 /\ UNCHANGED m_dxgiDevice
            ELSE /\ m_dxgiDevice' = TRUE
                 /\ scpc' = "adapter"
                 /\ UNCHANGED scRet
  /\ UNCHANGED <<hWnd, driverTypeIndex, m_device, m_deviceContext,
                 m_qualityLevels, m_dxgiAdapter, m_dxgiFactory, m_swapChain,
                 backBuffer, notSC>>

\* hr = m_dxgiDevice->GetAdapter(&m_dxgiAdapter);
SCGetAdapter ==
  /\ scpc = "adapter"
  /\ \E h \in ApiResults :
       /\ hr' = h
       /\ IF FAILED(h)
            THEN /\ SCReturn(h)
                 /\ UNCHANGED m_dxgiAdapter
            ELSE /\ m_dxgiAdapter' = TRUE
                 /\ scpc' = "factory"
                 /\ UNCHANGED scRet
  /\ UNCHANGED <<hWnd, driverTypeIndex, m_device, m_deviceContext,
                 m_qualityLevels, m_dxgiDevice, m_dxgiFactory, m_swapChain,
                 backBuffer, notSC>>

\* hr = m_dxgiAdapter->GetParent(IDXGIFactory, &m_dxgiFactory);
SCGetParent ==
  /\ scpc = "factory"
  /\ \E h \in ApiResults :
       /\ hr' = h
       /\ IF FAILED(h)
            THEN /\ SCReturn(h)
                 /\ UNCHANGED m_dxgiFactory
            ELSE /\ m_dxgiFactory' = TRUE
                 /\ scpc' = "swapchain"
                 /\ UNCHANGED scRet
  /\ UNCHANGED <<hWnd, driverTypeIndex, m_device, m_deviceContext,
                 m_qualityLevels, m_dxgiDevice, m_dxgiAdapter, m_swapChain,
                 backBuffer, notSC>>

\* hr = m_dxgiFactory->CreateSwapChain(device.m_device, &sd, &m_swapChain);
SCCreateSwapChain ==
  /\ scpc = "swapchain"
  /\ \E h \in ApiResults :
       /\ hr' = h
       /\ IF FAILED(h)
            THEN /\ SCReturn(h)
                 /\ UNCHANGED m_swapChain
            ELSE /\ m_swapChain' = TRUE
                 /\ scpc' = "buffer"
                 /\ UNCHANGED scRet
  /\ UNCHANGED <<hWnd, driverTypeIndex, m_device, m_deviceContext,
                 m_qualityLevels, m_dxgiDevice, m_dxgiAdapter, m_dxgiFactory,
                 backBuffer, notSC>>

\* hr = m_swapChain->GetBuffer(0, ID3D11Texture2D, &backBuffer);
\* if (FAILED(hr)) return hr;  return S_OK;
SCGetBuffer ==
  /\ scpc = "buffer"
  /\ \E h \in ApiResults :
       /\ hr' = h
       /\ IF FAILED(h)
            THEN /\ SCReturn(h)
                 /\ UNCHANGED backBuffer
            ELSE /\ backBuffer' = TRUE
                 /\ SCReturn("S_OK")
  /\ UNCHANGED <<hWnd, driverTypeIndex, m_device, m_deviceContext,
                 m_qualityLevels, m_dxgiDevice, m_dxgiAdapter, m_dxgiFactory,
                 m_swapChain, notSC>>

MaxDestroy == 4

\* Which pointer members are not null.
ptr ==
  [p \in PtrNames |->
    CASE p = "m_device" -> m_device
      [] p = "m_deviceContext" -> m_deviceContext
      [] p = "m_swapChain" -> m_swapChain
      [] p = "m_dxgiDevice" -> m_dxgiDevice
      [] p = "m_dxgiAdapter" -> m_dxgiAdapter
      [] p = "m_dxgiFactory" -> m_dxgiFactory
      [] p = "m_renderTargetView" -> m_renderTargetView
      [] p = "m_depthStencilView" -> m_depthStencilView]

\* SAFE_RELEASE(x) is `if(x != nullptr) x->Release(); x = nullptr;`.
\* The Release() calls made by SAFE_RELEASE on each pointer of P:
ReleaseCalls(P) ==
  [p \in PtrNames |->
    released[p] + (IF p \in P /\ ptr[p] THEN 1 ELSE 0)]
\* and what it leaves in x:
Nulled_Kept(x) == x
Nulled(x) == FALSE

\* One more destroy() call on wrapper w.
DestroyCalls ==
  destroyed["Device"] + destroyed["DeviceContext"] + destroyed["SwapChain"]
    + destroyed["RenderTargetView"] + destroyed["DepthStencilView"]
DestroyCalled(w) ==
  /\ DestroyCalls < MaxDestroy
  /\ destroyed' = [destroyed EXCEPT ![w] = @ + 1]

\* SwapChain::destroy(): the four guarded SAFE_RELEASEs.
SCDestroy ==
  /\ scpc \in {"done", "destroyed"}
  /\ scpc' = "destroyed"
  /\ DestroyCalled("SwapChain")
  /\ released' = ReleaseCalls(Ptrs("SwapChain"))
  /\ m_swapChain' = Nulled(m_swapChain)
  /\ m_dxgiDevice' = Nulled(m_dxgiDevice)
  /\ m_dxgiAdapter' = Nulled(m_dxgiAdapter)
  /\ m_dxgiFactory' = Nulled(m_dxgiFactory)
  /\ UNCHANGED <<hWnd, hr, driverTypeIndex, m_device, m_deviceContext,
                 m_qualityLevels, backBuffer, scRet, notWrap,
                 m_renderTargetView, m_depthStencilView, inited, wrapRet>>

\* init is called with a window that has a handle or has none, on a
\* SwapChain whose m_qualityLevels is indeterminate.
InitSC ==
  /\ LoaderIdle
  /\ RMConstructed
  /\ IDConstructed
  /\ TexConstructed
  /\ WrapConstructed
  /\ OMConstructed
  /\ hWnd \in BOOLEAN
  /\ m_qualityLevels \in 0..MaxQuality
  /\ SCFresh

NextSC ==
  \/ SCCheckWindow
  \/ SCCreateDevice
  \/ SCDeviceCheck
  \/ SCCheckMsaa
  \/ SCQueryInterface
  \/ SCGetAdapter
  \/ SCGetParent
  \/ SCCreateSwapChain
  \/ SCGetBuffer
  \/ SCDestroy

SpecSC == InitSC /\ [][NextSC]_vars

\* C19: when init has returned a success HRESULT, the device, the swap chain
\* and the back buffer have all been obtained.
C19_SuccessMeansAllObtained ==
  (scpc = "done" /\ SUCCEEDED(scRet))
    => (m_device /\ m_swapChain /\ backBuffer)

----------------------------------------------------------------------------
\* Texture (Texture.cpp): the three init overloads and destroy, called in any
\* order on one Texture object.

MaxCom == 3

\* SAFE_RELEASE(x): x->Release(); x = nullptr;   (the count of object x)
Release(x) == [com EXCEPT ![x] = @ - 1]

\* init(device, textureName, extensionType)
TexInitFile ==
  /\ texCall' = [op |-> "initFile", zeroSize |-> FALSE, device |-> FALSE,
                 created |-> FALSE]
  /\ texRet' = "E_NOTIMPL"
  /\ UNCHANGED <<m_texture, m_textureFromImg, com, notTex>>

\* init(device, width, height, Format, BindFlags, sampleCount, qualityLevels).
\* The zero-size branch logs and goes on.  When CreateTexture2D fails, what
\* it leaves in m_texture is Direct3D's: the old pointer or null.
TexInitSize ==
  /\ \E deviceOk \in BOOLEAN, zero \in BOOLEAN :
       /\ texCall' = [op |-> "initSize", zeroSize |-> zero,
                      device |-> deviceOk, created |-> deviceOk]
       /\ IF ~deviceOk
            THEN /\ texRet' = "E_POINTER"
                 /\ UNCHANGED <<m_texture, com>>
            ELSE \E h \in ApiResults :
                   IF FAILED(h)
                     THEN /\ texRet' = h
                          /\ m_texture' \in {m_texture, nullptr}
                          /\ UNCHANGED com
                     ELSE /\ Len(com) < MaxCom
                          /\ com' = Append(com, 1)
                          /\ m_texture' = Len(com) + 1
                          /\ texRet' = "S_OK"
  /\ UNCHANGED <<m_textureFromImg, notTex>>

\* init(device, textureRef, format)
TexInitFromTexture ==
  /\ \E deviceOk \in BOOLEAN, refOk \in BOOLEAN :
       /\ texCall' = [op |-> "initFromTexture", zeroSize |-> FALSE,
                      device |-> deviceOk, created |-> FALSE]
       /\ IF ~deviceOk \/ ~refOk
            THEN /\ texRet' = "E_POINTER"
                 /\ UNCHANGED <<m_textureFromImg, com>>
            ELSE \E h \in ApiResults :
                   IF FAILED(h)
                     THEN /\ texRet' = h
                          /\ m_textureFromImg' \in {m_textureFromImg, nullptr}
                          /\ UNCHANGED com
                     ELSE /\ Len(com) < MaxCom
                          /\ com' = Append(com, 1)
                          /\ m_textureFromImg' = Len(com) + 1
                          /\ texRet' = "S_OK"
  /\ UNCHANGED <<m_texture, notTex>>

\* destroy(): if (m_texture != nullptr) SAFE_RELEASE(m_texture);
\*            else if (m_textureFromImg != nullptr) SAFE_RELEASE(m_textureFromImg);
TexDestroy ==
  /\ texCall' = [op |-> "destroy", zeroSize |-> FALSE, device |-> FALSE,
                 created |-> FALSE]
  /\ texRet' = "none"
  /\ IF m_texture # nullptr
       THEN /\ com' = Release(m_texture)
            /\ m_texture' = nullptr
            /\ UNCHANGED m_textureFromImg
       ELSE IF m_textureFromImg # nullptr
              THEN /\ com' = Release(m_textureFromImg)
                   /\ m_textureFromImg' = nullptr
                   /\ UNCHANGED m_texture
              ELSE UNCHANGED <<m_texture, m_textureFromImg, com>>
  /\ UNCHANGED notTex

InitTex ==
  /\ LoaderIdle
  /\ EngineConstructed

NextTex ==
  \/ TexInitFile
  \/ TexInitSize
  \/ TexInitFromTexture
  \/ TexDestroy

SpecTex == InitTex /\ [][NextTex]_vars

\* C20: when destroy() has returned, m_texture and m_textureFromImg are both
\* null.
C20_DestroyNullsBoth ==
  texCall.op = "destroy"
    => (m_texture = nullptr /\ m_textureFromImg = nullptr)

\* C24: init(device, width, height, ...) with width == 0 or height == 0 on a
\* device that is set returns E_INVALIDARG, does not call CreateTexture2D
\* and leaves m_texture as it was.
C24_ZeroSizeRejected ==
  [][ (texCall'.op = "initSize" /\ texCall'.zeroSize /\ texCall'.device)
        => /\ texRet' = "E_INVALIDARG"
           /\ ~texCall'.created
           /\ m_texture' = m_texture ]_vars

----------------------------------------------------------------------------
\* Device, DeviceContext, RenderTargetView and DepthStencilView: the init of
\* the two views and the destroy of all four, next to SwapChain::init and
\* SwapChain::destroy.  As in BaseApp, a view is initialised once, after
\* SwapChain::init has returned and before anything is destroyed, and Device,
\* DeviceContext and SwapChain are destroyed after SwapChain::init.

\* Device::destroy()
DeviceDestroy ==
  /\ scpc \in {"done", "destroyed"}
  /\ DestroyCalled("Device")
  /\ released' = ReleaseCalls(Ptrs("Device"))
  /\ m_device' = Nulled(m_device)
  /\ UNCHANGED <<scpc, hWnd, hr, driverTypeIndex, m_deviceContext,
                 m_qualityLevels, m_dxgiDevice, m_dxgiAdapter, m_dxgiFactory,
                 m_swapChain, backBuffer, scRet, notWrap,
                 m_renderTargetView, m_depthStencilView, inited, wrapRet>>

\* DeviceContext::destroy()
DeviceContextDestroy ==
  /\ scpc \in {"done", "destroyed"}
  /\ DestroyCalled("DeviceContext")
  /\ released' = ReleaseCalls(Ptrs("DeviceContext"))
  /\ m_deviceContext' = Nulled(m_deviceContext)
  /\ UNCHANGED <<scpc, hWnd, hr, driverTypeIndex, m_device,
                 m_qualityLevels, m_dxgiDevice, m_dxgiAdapter, m_dxgiFactory,
                 m_swapChain, backBuffer, scRet, notWrap,
                 m_renderTargetView, m_depthStencilView, inited, wrapRet>>

\* RenderTargetView::init(device, backBuffer, Format); the overload taking a
\* view dimension makes the same checks and the same call.
RTVInit ==
  /\ scpc = "done"
  /\ "RenderTargetView" \notin inited
  /\ destroyed["RenderTargetView"] = 0
  /\ inited' = inited \cup {"RenderTargetView"}
  /\ \E texOk \in BOOLEAN, fmtOk \in BOOLEAN :
       IF ~m_device \/ ~texOk
         THEN /\ wrapRet' = "E_POINTER"
              /\ UNCHANGED m_renderTargetView
         ELSE IF ~fmtOk
                THEN /\ wrapRet' = "E_INVALIDARG"
                     /\ UNCHANGED m_renderTargetView
                ELSE \E h \in ApiResults :
                       /\ wrapRet' = h
                       /\ m_renderTargetView' = SUCCEEDED(h)
  /\ UNCHANGED <<scVars, notWrap, m_depthStencilView, released, destroyed>>

\* RenderTargetView::destroy()
RTVDestroy ==
  /\ DestroyCalled("RenderTargetView")
  /\ released' = ReleaseCalls(Ptrs("RenderTargetView"))
  /\ m_renderTargetView' = Nulled(m_renderTargetView)
  /\ UNCHANGED <<scVars, notWrap, m_depthStencilView, inited, wrapRet>>

\* DepthStencilView::init(device, depthStencil, format)
DSVInit ==
  /\ scpc = "done"
  /\ "DepthStencilView" \notin inited
  /\ destroyed["DepthStencilView"] = 0
  /\ inited' = inited \cup {"DepthStencilView"}
  /\ \E texOk \in BOOLEAN :
       IF ~m_device
         THEN /\ wrapRet' = "E_POINTER"
              /\ UNCHANGED m_depthStencilView
         ELSE IF ~texOk
                THEN /\ wrapRet' = "E_FAIL"
                     /\ UNCHANGED m_depthStencilView
                ELSE \E h \in ApiResults :
                       /\ wrapRet' = h
                       /\ m_depthStencilView' = SUCCEEDED(h)
  /\ UNCHANGED <<scVars, notWrap, m_renderTargetView, released, destroyed>>

\* DepthStencilView::destroy()
DSVDestroy ==
  /\ DestroyCalled("DepthStencilView")
  /\ released' = ReleaseCalls(Ptrs("DepthStencilView"))
  /\ m_depthStencilView' = Nulled(m_depthStencilView)
  /\ UNCHANGED <<scVars, notWrap, m_renderTargetView, inited, wrapRet>>

NextWrap ==
  \/ SCCheckWindow
  \/ SCCreateDevice
  \/ SCDeviceCheck
  \/ SCCheckMsaa
  \/ SCQueryInterface
  \/ SCGetAdapter
  \/ SCGetParent
  \/ SCCreateSwapChain
  \/ SCGetBuffer
  \/ SCDestroy
  \/ DeviceDestroy
  \/ DeviceContextDestroy
  \/ RTVInit
  \/ RTVDestroy
  \/ DSVInit
  \/ DSVDestroy

\* Freshly constructed objects, and a window with or without a handle.
InitWrap ==
  /\ LoaderIdle
  /\ RMConstructed
  /\ IDConstructed
  /\ TexConstructed
  /\ WrapConstructed
  /\ OMConstructed
  /\ hWnd \in BOOLEAN
  /\ m_qualityLevels = 0
  /\ SCFresh

SpecWrap == InitWrap /\ [][NextWrap]_vars

\* The step is a destroy() call on wrapper w.
DestroyStep(w) == destroyed'[w] = destroyed[w] + 1

\* C21: a destroy() call leaves every pointer of its wrapper null, and has
\* Release() called on a pointer if and only if the pointer was not null, so
\* that over an init followed by any number of destroy calls each pointer
\* that init obtained is released exactly once and no other is released.
C21_DestroyReleasesOnce ==
  [][ \A w \in Wrappers :
        DestroyStep(w)
          => \A p \in Ptrs(w) :
               /\ ~ptr'[p]
               /\ released'[p] = released[p] + (IF ptr[p] THEN 1 ELSE 0)
               /\ released'[p] = (IF ptr[p] \/ released[p] = 1 THEN 1 ELSE 0)
    ]_vars

\* C21 witness: after successful inits the DepthStencilView and the
\* SwapChain have each been destroyed twice; each of their pointers is null
\* and has been released once.
C21_Witness ==
  /\ scRet = "S_OK"
  /\ wrapRet = "S_OK"
  /\ destroyed["DepthStencilView"] = 2
  /\ destroyed["SwapChain"] = 2
  /\ \A p \in Ptrs("DepthStencilView") \cup Ptrs("SwapChain") :
       released[p] = 1 /\ ~ptr[p]

----------------------------------------------------------------------------
\* DeviceContext::OMSetRenderTargets (DeviceContext.cpp), called with any
\* arguments on a DeviceContext whose native context is set or is null.

MaxViews == 2

\* if (!ppRenderTargetViews && !pDepthStencilView) return;
\* if (NumViews > 0 && !ppRenderTargetViews) return;
Dropped_SecondCheckOnly(n, rtvs, dsv) == n > 0 /\ ~rtvs
Dropped(n, rtvs, dsv) == (~rtvs /\ ~dsv) \/ (n > 0 /\ ~rtvs)

\* m_deviceContext->OMSetRenderTargets(...) through a null m_deviceContext is
\* undefined: the call may crash, do nothing, or reach some context.
NullCallOutcomes == {"crashed", "dropped", "forwarded"}

OMSetRenderTargets ==
  /\ \E n \in 0..MaxViews, rtvs \in BOOLEAN, dsv \in BOOLEAN :
       /\ omCall' = [NumViews |-> n, rtvs |-> rtvs, dsv |-> dsv]
       /\ IF Dropped(n, rtvs, dsv)
            THEN omOutcome' = "dropped"
            ELSE IF m_deviceContext
                   THEN omOutcome' = "forwarded"
                   ELSE omOutcome' \in NullCallOutcomes
  /\ omBound' = IF omOutcome' = "forwarded" THEN omCall' ELSE omBound
  /\ UNCHANGED notOM

\* The DeviceContext after SwapChain::init has returned: filled or not.
InitOM ==
  /\ LoaderIdle
  /\ RMConstructed
  /\ IDConstructed
  /\ TexConstructed
  /\ WrapConstructed
  /\ OMConstructed
  /\ scpc = "done"
  /\ hWnd = TRUE
  /\ hr \in ApiResults
  /\ driverTypeIndex = 0
  /\ m_device \in BOOLEAN
  /\ m_deviceContext = m_device
  /\ SUCCEEDED(hr) = m_device
  /\ m_qualityLevels = 0
  /\ m_dxgiDevice = FALSE
  /\ m_dxgiAdapter = FALSE
  /\ m_dxgiFactory = FALSE
  /\ m_swapChain = FALSE
  /\ backBuffer = FALSE
  /\ scRet = hr

NextOM ==
  \/ OMSetRenderTargets

SpecOM == InitOM /\ [][NextOM]_vars

\* A call has been made on a DeviceContext whose native context is set.
OMCalled == omOutcome # "none" /\ m_deviceContext

----------------------------------------------------------------------------
\* More claims about loadModel.

\* The position field of each token, read by eye.
PositionField(c) ==
  CASE c = TokNoPos -> "empty"
    [] c = TokX -> "non-numeric"
    [] c = Tok0 -> "zero"
    [] c = TokNeg1 -> "negative"
    [] OTHER -> "positive"

SkippedPlaces ==
  {pl \in Places : /\ Len(faces[pl[1]]) < 3
                   /\ (pl[1] < Len(faces) \/ pc # "token")}

\* C25: a token of a face skipped for having fewer than 3 tokens has its
\* vertex in the vertex list and its index in the token map; every later
\* occurrence of the token gets that index; and a successful load counts the
\* vertex, whether or not an index names it.
C25_SkippedFaceTokensKept ==
  \A pl \in SkippedPlaces :
    /\ IndexAt(pl) < Len(m_vertex)
    /\ TokenAt(pl) \in DOMAIN uniqueVertex
    /\ uniqueVertex[TokenAt(pl)] = IndexAt(pl)
    /\ \A p2 \in Places :
         (p2[1] > pl[1] /\ TokenAt(p2) = TokenAt(pl))
           => IndexAt(p2) = IndexAt(pl)
    /\ (pc = "done" /\ result = TRUE) => m_numVertex > IndexAt(pl)

\* C25 witness: the one-token face 2/2 was skipped, the triangle on the next
\* face line reuses 2/2 and got the index 0 assigned in the skipped face.
C25_Witness ==
  /\ pc = "done"
  /\ result = TRUE
  /\ faces = << <<Tok22>>, <<Tok11, Tok22, Tok111>> >>
  /\ resolved = << <<0>>, <<1, 0, 2>> >>
  /\ m_index = <<1, 0, 2>>
  /\ m_numVertex = 3

\* The steps of loadModel before its first std::getline: the existence check
\* and the opening of the stream.
EntryStep == pc \in {"call", "open"} /\ pc' # pc

\* C26: a load that returns because the file does not exist or cannot be
\* opened returns false with the vertex list, the index list and both counts
\* as they were at the call; every other load has emptied the lists and
\* zeroed the counts when it reaches its first line, and no line is read
\* before that.
C26_MeshOnEntry ==
  [][ EntryStep
        => /\ linesRead' = 0
           /\ pc' \in {"open", "done", "line"}
           /\ pc' = "open" => meshVars' = meshVars
           /\ pc' = "done"
                => /\ result' = FALSE
                   /\ ~fileExistsA(fileStatus) \/ fileStatus = "locked"
                   /\ meshVars' = meshVars
           /\ pc' = "line"
                => /\ fileStatus = "regular"
                   /\ m_vertex' = <<>>
                   /\ m_index' = <<>>
                   /\ m_numVertex' = 0
                   /\ m_numIndex' = 0 ]_vars

\* C26 witness: a second load, into a mesh that holds the quad of the first
\* load, has returned false on a file that could not be opened; the mesh
\* still holds the quad.
C26_Witness ==
  /\ again
  /\ heldAtCall = 4
  /\ pc = "done"
  /\ result = FALSE
  /\ fileStatus = "locked"
  /\ streamOpened
  /\ Len(m_vertex) = 4
  /\ m_index = <<0, 1, 2, 0, 2, 3>>
  /\ m_numVertex = 4
  /\ m_numIndex = 6

====
